---- MODULE Spec2Model ----
(***************************************************************************)
(* Notification delivery of Newsor_BE: the two WebSocket consumers         *)
(* (api/consumers.py and api/consumers_enhanced.py), the channel layer     *)
(* they join, and NotificationService, which stores a Notification row and *)
(* sends it to a channel-layer group.                                      *)
(*                                                                         *)
(* Python values are encoded as follows.  A string that the code slices    *)
(* (an Authorization value, a token) is a sequence of parts, so that       *)
(* startswith('Bearer ') and [7:] are computed on it.  A user is its id,   *)
(* AnonymousUser is the id 0 (its Python id is None) and NoUser stands for *)
(* None.  A frame written to the socket is [type, id, key, nid]: key is    *)
(* the name under payload (or payload.data) and nid the notification it    *)
(* carries, 0 when it carries none.  Of the frames written to a socket the *)
(* model keeps the last one (sent) and, in order, those that carry a       *)
(* notification (delivered).                                               *)
(***************************************************************************)
EXTENDS Integers, Sequences, FiniteSets, TLC

\* ---------------------------------------------------------------- bounds
NumUsers == 3            \* rows of the user table, ids 1..NumUsers
MaxNotifications == 2    \* rows of the notification table
MaxFrames == 2           \* notification frames written to one socket
MaxInbox == 2            \* channel-layer messages waiting for one consumer
MaxTime == 3             \* instants at which timezone.now() is read

\* Two sockets: the handlers of different sockets meet only in the channel
\* layer, where one is a member of a group and the other is not.
Conns == {1, 2}
UserIds == 1..NumUsers

\* ------------------------------------------------------------ Python bits
AnonymousUser == 0
NoUser == 0 - 1
None == "None"
Absent == "absent"

GraphqlWs == "graphql-ws"
GraphqlTransportWs == "graphql-transport-ws"
Bearer == "Bearer "

\* ----------------------------------------------------------------- state
VARIABLES
    consumer,         \* the consumer class serving path graphql/
    username,         \* auth_user.username, by user id
    is_active,        \* auth_user.is_active, by user id
    role,             \* UserProfile.role, by user id
    conn,             \* per socket: "new", "open", "rejected", "crashed", "closed"
    subprotocol,      \* per socket: the sub-protocol it was accepted with
    user,             \* per consumer: self.user
    group_name,       \* per consumer: self.group_name (consumers.py)
    groups,           \* per consumer: self.groups (consumers_enhanced.py)
    subscription_id,  \* per consumer: self.subscription_id (consumers.py)
    pc,               \* per consumer: where its handle_connection_init stands
    channel_groups,   \* the channel layer: pairs <<group, channel>>
    inbox,            \* per channel: group messages not yet dispatched
    sent,             \* per socket: the last frame written to the client
    delivered,        \* per socket: the notification frames written, in order
    store,            \* the Notification table, row id = index
    pub,              \* the NotificationService call in progress
    reply             \* the result of the last notification mutation

vars == <<consumer, username, is_active, role, conn, subprotocol, user, group_name,
          groups, subscription_id, pc, channel_groups, inbox, sent, delivered,
          store, pub, reply>>

userTable == <<username, is_active, role>>
layerVars == <<channel_groups, inbox>>
storeVars == <<store, pub, reply>>
sessionVars == <<user, group_name, groups, subscription_id>>

\* ---------------------------------------------------------------- inputs
ConsumerClasses == {"consumers", "consumers_enhanced"}

PlainName(u) == "writer" \o ToString(u)
Usernames == {PlainName(u) : u \in UserIds} \cup {"anonymous"}
                 \cup {ToString(u) : u \in UserIds}
Roles == {"manager", "writer"}
SubIds == {"s1", "s2"}

\* A signed token naming user_id u; u = NumUsers + 1 is an account that does
\* not exist.
TokenFor(u) == "jwt:" \o ToString(u)
GoodTokens == {TokenFor(u) : u \in 1..(NumUsers + 1)}
BadTokens == {"jwt:nouid", "jwt:expired", "jwt:badsig", "malformed"}
Tokens == GoodTokens \cup BadTokens

\* What the client sends with the handshake.
Offers == {<<>>, <<GraphqlWs>>, <<GraphqlTransportWs>>,
           <<GraphqlWs, GraphqlTransportWs>>, <<"soap">>}
HeaderValues == {<<>>, <<Bearer>>, <<TokenFor(1)>>} \cup {<<Bearer, t>> : t \in Tokens}
QueryTokens == {Absent, "", TokenFor(1), "jwt:expired"}
Scopes == [subprotocols : Offers, authorization : HeaderValues, token : QueryTokens]

\* A value found under a key of a JSON object: missing, a number or a string.
StrVal(s) == [t |-> "str", s |-> s]
AbsentVal == [t |-> Absent, s |-> <<>>]
NumVal == [t |-> "num", s |-> <<>>]
CredVals == {AbsentVal, NumVal, StrVal(<<>>)} \cup {StrVal(<<t>>) : t \in Tokens}
                \cup {StrVal(<<Bearer, t>>) : t \in Tokens}

\* An inbound frame.  kind: "bytes", "text" (not JSON), "json" (JSON, not an
\* object) or "object"; payload: Absent, None (null) or "dict".
Msg(type, id, payload, up, low, query) ==
    [kind |-> "object", type |-> type, id |-> id, payload |-> payload,
     Authorization |-> up, authorization |-> low, query |-> query]
RawMsg(kind) ==
    [kind |-> kind, type |-> None, id |-> None, payload |-> Absent,
     Authorization |-> AbsentVal, authorization |-> AbsentVal, query |-> Absent]

InitMsgs ==
    {Msg("connection_init", None, p, AbsentVal, AbsentVal, Absent) : p \in {Absent, None}}
    \cup {Msg("connection_init", None, "dict", v, AbsentVal, Absent) : v \in CredVals}
    \cup {Msg("connection_init", None, "dict", AbsentVal, v, Absent) :
              v \in {NumVal, StrVal(<<>>), StrVal(<<TokenFor(1)>>),
                     StrVal(<<Bearer, TokenFor(1)>>), StrVal(<<"jwt:expired">>)}}
    \cup {Msg("connection_init", None, "dict", v, StrVal(<<TokenFor(1)>>), Absent) :
              v \in {StrVal(<<>>), StrVal(<<"jwt:expired">>)}}
SubscribeMsgs ==
    {Msg(t, "s1", p, AbsentVal, AbsentVal, Absent) :
        t \in {"subscribe", "start"}, p \in {Absent, None}}
    \cup {Msg(t, "s1", "dict", AbsentVal, AbsentVal, q) :
        t \in {"subscribe", "start"}, q \in {Absent, None, "newsUpdate"}}
    \cup {Msg(t, i, "dict", AbsentVal, AbsentVal, "notificationAdded") :
        t \in {"subscribe", "start"}, i \in SubIds \cup {None}}
CompleteMsgs ==
    {Msg(t, i, Absent, AbsentVal, AbsentVal, Absent) :
        t \in {"complete", "stop"}, i \in SubIds}
OtherMsgs ==
    {Msg(t, None, Absent, AbsentVal, AbsentVal, Absent) : t \in {"ping", "pong", None}}
    \cup {RawMsg(k) : k \in {"bytes", "text", "json"}}
ClientMsgs == InitMsgs \cup SubscribeMsgs \cup CompleteMsgs \cup OtherMsgs

\* ------------------------------------------------------- token verifier
startswith(s, prefix) == Len(s) >= 1 /\ s[1] = prefix
StripPrefix(s) == Tail(s)

\* What each token string holds: the user_id of its payload, or the exception
\* its signature, expiry or shape makes jwt.decode raise.
Claims ==
    [t \in Tokens |->
        IF t \in GoodTokens
        THEN [exc |-> None, user_id |-> CHOOSE u \in 1..(NumUsers + 1) : t = TokenFor(u)]
        ELSE IF t = "jwt:nouid" THEN [exc |-> None, user_id |-> 0]
        ELSE IF t = "jwt:expired" THEN [exc |-> "ExpiredSignatureError", user_id |-> 0]
        ELSE [exc |-> "InvalidTokenError", user_id |-> 0]]

\* jwt.decode(token, SECRET_KEY, algorithms=['HS256']): the payload, or the
\* exception it raises.  Anything but one well-formed token does not decode.
jwt_decode(token) ==
    IF Len(token) = 1 /\ token[1] \in Tokens
    THEN Claims[token[1]]
    ELSE [exc |-> "InvalidTokenError", user_id |-> 0]

\* User.objects.get(id=user_id) finds a row.
UserExists(user_id) == user_id \in UserIds

\* authenticate_token without its "if user.is_active" test.
authenticate_token_any_account(token) ==
    LET p == jwt_decode(token) IN
    IF p.exc # None THEN NoUser
    ELSE IF p.user_id = 0 THEN NoUser
    ELSE IF ~UserExists(p.user_id) THEN NoUser
    ELSE p.user_id

\* consumers_enhanced.authenticate_token: the user id, or NoUser for None.
authenticate_token(token) ==
    LET p == jwt_decode(token) IN
    IF p.exc # None THEN NoUser
    ELSE IF p.user_id = 0 THEN NoUser
    ELSE IF ~UserExists(p.user_id) THEN NoUser
    ELSE IF is_active[p.user_id] THEN p.user_id
    ELSE NoUser

\* The token taken from the query string first, from the header otherwise.
ScopeToken_query_first(scope) ==
    LET fromHeader == IF startswith(scope.authorization, Bearer)
                      THEN StripPrefix(scope.authorization) ELSE <<>>
    IN  IF scope.token \notin {Absent, ""} THEN <<scope.token>>
        ELSE fromHeader

\* The token both connect handlers take from the scope: the header's when it
\* starts with 'Bearer ' and leaves a non-empty rest, else the query string's.
\* <<>> stands for "no token" (None and '' are both falsy).
ScopeToken(scope) ==
    LET fromHeader == IF startswith(scope.authorization, Bearer)
                      THEN StripPrefix(scope.authorization) ELSE <<>>
    IN  IF fromHeader # <<>> THEN fromHeader
        ELSE IF scope.token \in {Absent, ""} THEN <<>>
        ELSE <<scope.token>>

\* consumers_enhanced.get_user_from_token.
get_user_from_token(scope) ==
    LET token == ScopeToken(scope) IN
    IF token = <<>> THEN AnonymousUser
    ELSE IF authenticate_token(token) # NoUser THEN authenticate_token(token)
    ELSE AnonymousUser

\* ---------------------------------------------------------- topic names
NotificationsGroup(user_id) == "notifications_" \o ToString(user_id)
NotificationsGroupByName(name) == "notifications_" \o name
NotificationsAnonymous == "notifications_anonymous"
UserGroup(user_id) == "user_" \o ToString(user_id)
AnonymousUsers == "anonymous_users"

\* ------------------------------------------------------- channel layer
group_add(cg, group, channel) == cg \cup {<<group, channel>>}
group_discard(cg, group, channel) == cg \ {<<group, channel>>}
Members(cg, group) == {c \in Conns : <<group, c>> \in cg}
GroupsOf(cg, channel) == {p[1] : p \in {q \in cg : q[2] = channel}}

\* A channel layer that puts the newest message first in a channel's queue.
group_send_newest_first(cg, ib, group, nid) ==
    [c \in Conns |-> IF /\ <<group, c>> \in cg
                        /\ Len(ib[c]) < MaxInbox
                        /\ conn[c] \in {"open", "rejected"}
                     THEN <<nid>> \o ib[c] ELSE ib[c]]

\* group_send: the message is queued for every channel of the group.
\* A channel that already holds MaxInbox messages is over capacity and is
\* skipped.  What is queued for a channel whose consumer has ended is never
\* read, and is not kept.
group_send(cg, ib, group, nid) ==
    [c \in Conns |-> IF /\ <<group, c>> \in cg
                        /\ Len(ib[c]) < MaxInbox
                        /\ conn[c] \in {"open", "rejected"}
                     THEN Append(ib[c], nid) ELSE ib[c]]

Frame(type, id, key, nid) == [type |-> type, id |-> id, key |-> key, nid |-> nid]
NoFrame == Frame(None, Absent, Absent, 0)
\* self.send(text_data=json.dumps(frame))
send(c, frame) ==
    /\ sent' = [sent EXCEPT ![c] = frame]
    /\ delivered' = IF frame.nid # 0 THEN [delivered EXCEPT ![c] = Append(@, frame)]
                    ELSE delivered

In(x, seq) == \E i \in 1..Len(seq) : seq[i] = x

\* The consumer instance of socket c ends in state how: its attributes, the
\* messages still queued for it and the record of its socket are dropped.
release(c, how) ==
    /\ conn' = [conn EXCEPT ![c] = how]
    /\ subprotocol' = [subprotocol EXCEPT ![c] = None]
    /\ user' = [user EXCEPT ![c] = NoUser]
    /\ group_name' = [group_name EXCEPT ![c] = None]
    /\ groups' = [groups EXCEPT ![c] = <<>>]
    /\ subscription_id' = [subscription_id EXCEPT ![c] = Absent]
    /\ inbox' = [inbox EXCEPT ![c] = <<>>]
    /\ sent' = [sent EXCEPT ![c] = NoFrame]
    /\ delivered' = [delivered EXCEPT ![c] = <<>>]
CanSend(c) == Len(delivered[c]) < MaxFrames

\* ------------------------------------------------------------------ Init
Init ==
    /\ consumer \in ConsumerClasses
    /\ username \in {f \in [UserIds -> Usernames] :
                        \A u, v \in UserIds : u # v => f[u] # f[v]}
    /\ is_active \in [UserIds -> BOOLEAN]
    /\ role \in [UserIds -> Roles]
    /\ conn = [c \in Conns |-> "new"]
    /\ subprotocol = [c \in Conns |-> None]
    /\ user = [c \in Conns |-> NoUser]
    /\ group_name = [c \in Conns |-> None]
    /\ groups = [c \in Conns |-> <<>>]
    /\ subscription_id = [c \in Conns |-> Absent]
    /\ pc = [c \in Conns |-> 0]
    /\ channel_groups = {}
    /\ inbox = [c \in Conns |-> <<>>]
    /\ sent = [c \in Conns |-> NoFrame]
    /\ delivered = [c \in Conns |-> <<>>]
    /\ store = <<>>
    /\ pub = [op |-> "idle", todo |-> <<>>, nid |-> 0]
    /\ reply = [op |-> None, user |-> NoUser, id |-> 0, success |-> FALSE, at |-> 0,
                count |-> 0]

\* --------------------------------------------------- consumers.py connect
\* A choice that falls back on graphql-ws when no supported name is offered.
chosen_subprotocol_fallback(subprotocols) ==
    IF In(GraphqlTransportWs, subprotocols) THEN GraphqlTransportWs
    ELSE GraphqlWs

\* The sub-protocol consumers.connect picks: graphql-transport-ws first.
chosen_subprotocol(subprotocols) ==
    IF In(GraphqlTransportWs, subprotocols) THEN GraphqlTransportWs
    ELSE IF In(GraphqlWs, subprotocols) THEN GraphqlWs
    ELSE None

\* The token decodes but names no usable account: connect closes and returns.
ClosesForAccount(scope) ==
    LET token == ScopeToken(scope)
        p == jwt_decode(token)
    IN  /\ token # <<>>
        /\ p.exc = None
        /\ (~UserExists(p.user_id) \/ ~is_active[p.user_id])

\* self.user after the token block of consumers.connect.
ConnectUser(scope) ==
    LET token == ScopeToken(scope)
        p == jwt_decode(token)
    IN  IF token = <<>> THEN AnonymousUser
        ELSE IF p.exc # None THEN AnonymousUser
        ELSE p.user_id

\* Sockets are numbered in the order in which they arrive.
Arrives(c) == conn[c] = "new" /\ \A d \in Conns : d < c => conn[d] # "new"

connect(c, scope) ==
    /\ consumer = "consumers"
    /\ Arrives(c)
    /\ IF ClosesForAccount(scope)
       THEN /\ conn' = [conn EXCEPT ![c] = "rejected"]
            /\ UNCHANGED <<subprotocol, user, group_name, channel_groups, sent, delivered>>
       ELSE LET u == ConnectUser(scope)
                g == IF u # AnonymousUser THEN NotificationsGroup(u)
                     ELSE NotificationsAnonymous
                chosen == chosen_subprotocol(scope.subprotocols)
            IN  /\ user' = [user EXCEPT ![c] = u]
                /\ group_name' = [group_name EXCEPT ![c] = g]
                /\ channel_groups' = group_add(channel_groups, g, c)
                /\ IF chosen # None
                   THEN /\ conn' = [conn EXCEPT ![c] = "open"]
                        /\ subprotocol' = [subprotocol EXCEPT ![c] = chosen]
                        /\ send(c, Frame("connection_ack", Absent, Absent, 0))
                   ELSE /\ conn' = [conn EXCEPT ![c] = "rejected"]
                        /\ UNCHANGED <<subprotocol, sent, delivered>>
    /\ UNCHANGED <<consumer, userTable, groups, subscription_id, pc, inbox, storeVars>>

\* ------------------------------------------ consumers_enhanced.py connect
\* accept(subprotocol='graphql-ws') whatever the client offered: the server
\* completes the handshake only when the client offered that name.
connect_enhanced(c, scope) ==
    /\ consumer = "consumers_enhanced"
    /\ Arrives(c)
    /\ LET u == get_user_from_token(scope)
           g == IF u # AnonymousUser THEN UserGroup(u) ELSE AnonymousUsers
       IN  /\ user' = [user EXCEPT ![c] = u]
           /\ channel_groups' = group_add(channel_groups, g, c)
           /\ groups' = [groups EXCEPT ![c] = Append(@, g)]
           /\ IF In(GraphqlWs, scope.subprotocols)
              THEN /\ conn' = [conn EXCEPT ![c] = "open"]
                   /\ subprotocol' = [subprotocol EXCEPT ![c] = GraphqlWs]
                   /\ send(c, Frame("connection_ack", Absent, "authenticated", 0))
              ELSE /\ conn' = [conn EXCEPT ![c] = "rejected"]
                   /\ UNCHANGED <<subprotocol, sent, delivered>>
    /\ UNCHANGED <<consumer, userTable, group_name, subscription_id, pc, inbox, storeVars>>

\* -------------------------------------------------------------- disconnect
\* A disconnect that leaves the group: group_discard is not called.
disconnect_without_discard(c) ==
    /\ consumer = "consumers"
    /\ conn[c] \in {"open", "rejected"}
    /\ pc[c] = 0
    /\ channel_groups' = channel_groups
    /\ release(c, "closed")
    /\ UNCHANGED <<consumer, userTable, pc, storeVars>>

\* websocket.disconnect reaches a consumer that is still running, between two
\* of its handlers.
disconnect(c) ==
    /\ consumer = "consumers"
    /\ conn[c] \in {"open", "rejected"}
    /\ pc[c] = 0
    /\ channel_groups' = IF group_name[c] # None
                         THEN group_discard(channel_groups, group_name[c], c)
                         ELSE channel_groups
    /\ release(c, "closed")
    /\ UNCHANGED <<consumer, userTable, pc, storeVars>>

disconnect_enhanced(c) ==
    /\ consumer = "consumers_enhanced"
    /\ conn[c] \in {"open", "rejected"}
    /\ pc[c] = 0
    /\ channel_groups' = {p \in channel_groups : ~(p[2] = c /\ In(p[1], groups[c]))}
    /\ release(c, "closed")
    /\ UNCHANGED <<consumer, userTable, pc, storeVars>>

\* ------------------------------------------------------ consumers.py receive
\* An exception leaves the handler: the consumer's task ends, the server closes
\* the socket, and disconnect() is not run.
crash(c) == release(c, "crashed")

\* receive() without its "except json.JSONDecodeError": text that is no JSON
\* raises as well.
ReceiveRaises_uncaught_decode(m) ==
    \/ m.kind \in {"bytes", "json", "text"}
    \/ /\ m.kind = "object"
       /\ m.type = "subscribe"
       /\ (m.payload = None \/ (m.payload = "dict" /\ m.query = None))

\* receive() raises: called with bytes_data, .get on a JSON value that is no
\* object, .get on a null payload, or 'notificationAdded' in None.
ReceiveRaises(m) ==
    \/ m.kind \in {"bytes", "json"}
    \/ /\ m.kind = "object"
       /\ m.type = "subscribe"
       /\ (m.payload = None \/ (m.payload = "dict" /\ m.query = None))

receive(c, m) ==
    /\ consumer = "consumers"
    /\ conn[c] = "open"
    /\ pc[c] = 0
    /\ IF ReceiveRaises(m)
       THEN crash(c)
       ELSE /\ UNCHANGED <<conn, subprotocol, user, group_name, groups, inbox>>
            /\ IF m.kind = "text"
               THEN UNCHANGED <<subscription_id, sent, delivered>>
               ELSE IF m.type = "connection_init"
               THEN /\ send(c, Frame("connection_ack", Absent, Absent, 0))
                    /\ UNCHANGED subscription_id
               ELSE IF m.type = "subscribe"
               THEN IF m.payload = "dict" /\ m.query = "notificationAdded"
                    THEN /\ subscription_id' = [subscription_id EXCEPT ![c] = m.id]
                         /\ send(c, Frame("next", m.id, "notificationAdded", 0))
                    ELSE UNCHANGED <<subscription_id, sent, delivered>>
               ELSE IF m.type = "complete"
               THEN /\ subscription_id' = [subscription_id EXCEPT ![c] = None]
                    /\ UNCHANGED <<sent, delivered>>
               ELSE UNCHANGED <<subscription_id, sent, delivered>>
    /\ UNCHANGED <<consumer, userTable, pc, channel_groups, storeVars>>

\* --------------------------------------------- consumers_enhanced.py receive
Truthy(v) == v.t = "num" \/ (v.t = "str" /\ v.s # <<>>)

\* payload.get('Authorization') or payload.get('authorization')
auth_token(m) == IF Truthy(m.Authorization) THEN m.Authorization ELSE m.authorization

\* handle_connection_init raises inside its try: .get on a null payload, or
\* .startswith on a value that is no string.
InitRaises(m) == m.payload = None \/ (m.payload = "dict" /\ auth_token(m).t = "num")

\* The token handle_connection_init verifies, 'Bearer ' removed.
InitToken(m) ==
    LET v == auth_token(m) IN
    IF startswith(v.s, Bearer) THEN StripPrefix(v.s) ELSE v.s

\* The user handle_connection_init switches to, NoUser when it switches to none.
InitUser(m) ==
    IF m.payload = "dict" /\ Truthy(auth_token(m))
    THEN authenticate_token(InitToken(m))
    ELSE NoUser

handle_connection_init(c, m) ==
    IF InitRaises(m)
    THEN /\ send(c, Frame("connection_error", Absent, "message", 0))
         /\ UNCHANGED <<user, pc>>
    ELSE IF InitUser(m) # NoUser
    THEN /\ user' = [user EXCEPT ![c] = InitUser(m)]
         /\ pc' = [pc EXCEPT ![c] = 1]
         /\ UNCHANGED <<sent, delivered>>
    ELSE /\ send(c, Frame("connection_ack", Absent, "authenticated", 0))
         /\ UNCHANGED <<user, pc>>

handle_subscription_start(c, m) ==
    IF m.payload = None
    THEN UNCHANGED <<sent, delivered>>
    ELSE send(c, Frame("data", m.id, "message", 0))

handle_subscription_stop(c, m) == send(c, Frame("complete", m.id, Absent, 0))

receive_enhanced(c, m) ==
    /\ consumer = "consumers_enhanced"
    /\ conn[c] = "open"
    /\ pc[c] = 0
    /\ IF m.kind = "bytes"
       THEN /\ crash(c)
            /\ UNCHANGED pc
       ELSE /\ UNCHANGED <<conn, subprotocol, group_name, groups, subscription_id, inbox>>
            /\ IF m.kind \in {"text", "json"}
               THEN /\ send(c, Frame("error", Absent, "message", 0))
                    /\ UNCHANGED <<user, pc>>
               ELSE IF m.type = "start"
               THEN /\ handle_subscription_start(c, m)
                    /\ UNCHANGED <<user, pc>>
               ELSE IF m.type = "stop"
               THEN /\ handle_subscription_stop(c, m)
                    /\ UNCHANGED <<user, pc>>
               ELSE IF m.type = "connection_init"
               THEN handle_connection_init(c, m)
               ELSE IF m.type = "ping"
               THEN /\ send(c, Frame("pong", Absent, Absent, 0))
                    /\ UNCHANGED <<user, pc>>
               ELSE UNCHANGED <<user, pc, sent, delivered>>
    /\ UNCHANGED <<consumer, userTable, channel_groups, storeVars>>

\* handle_connection_init, the loop "for group_name in self.groups: await
\* group_discard": one group per step.
init_discard(c) ==
    /\ consumer = "consumers_enhanced"
    /\ conn[c] = "open"
    /\ pc[c] >= 1
    /\ pc[c] <= Len(groups[c])
    /\ channel_groups' = group_discard(channel_groups, groups[c][pc[c]], c)
    /\ pc' = [pc EXCEPT ![c] = @ + 1]
    /\ UNCHANGED <<consumer, userTable, conn, subprotocol, sessionVars, inbox, sent,
                   delivered, storeVars>>

\* handle_connection_init after the loop: self.groups.clear(), group_add of the
\* user's group, self.groups.append, connection_ack.
init_add(c) ==
    /\ consumer = "consumers_enhanced"
    /\ conn[c] = "open"
    /\ pc[c] > Len(groups[c])
    /\ channel_groups' = group_add(channel_groups, UserGroup(user[c]), c)
    /\ groups' = [groups EXCEPT ![c] = <<UserGroup(user[c])>>]
    /\ send(c, Frame("connection_ack", Absent, "authenticated", 0))
    /\ pc' = [pc EXCEPT ![c] = 0]
    /\ UNCHANGED <<consumer, userTable, conn, subprotocol, user, group_name,
                   subscription_id, inbox, storeVars>>

\* ------------------------------------------------------ notification_message
notification_message(c) ==
    /\ consumer = "consumers"
    /\ conn[c] \in {"open", "rejected"}
    /\ pc[c] = 0
    /\ inbox[c] # <<>>
    /\ inbox' = [inbox EXCEPT ![c] = Tail(@)]
    /\ IF subscription_id[c] \notin {Absent, None}
       THEN /\ CanSend(c)
            /\ send(c, Frame("next", subscription_id[c], "notificationAdded", Head(inbox[c])))
       ELSE UNCHANGED <<sent, delivered>>
    /\ UNCHANGED <<consumer, userTable, conn, subprotocol, sessionVars, pc, channel_groups,
                   storeVars>>

\* A socket whose handshake failed takes no frame.
notification_message_enhanced(c) ==
    /\ consumer = "consumers_enhanced"
    /\ conn[c] \in {"open", "rejected"}
    /\ pc[c] = 0
    /\ inbox[c] # <<>>
    /\ inbox' = [inbox EXCEPT ![c] = Tail(@)]
    /\ IF conn[c] = "open"
       THEN /\ CanSend(c)
            /\ send(c, Frame("data", Absent, "notification", Head(inbox[c])))
       ELSE UNCHANGED <<sent, delivered>>
    /\ UNCHANGED <<consumer, userTable, conn, subprotocol, sessionVars, pc, channel_groups,
                   storeVars>>

\* ---------------------------------------------------- NotificationService
RECURSIVE Ascending(_)
Ascending(S) ==
    IF S = {} THEN <<>>
    ELSE LET least == CHOOSE x \in S : \A y \in S : x <= y
         IN  <<least>> \o Ascending(S \ {least})

\* User.objects.filter(profile__role__in=['manager', 'admin'], is_active=True)
managers == {u \in UserIds : role[u] \in {"manager", "admin"} /\ is_active[u]}

WriterOps == {"notify_writer_of_approval", "notify_writer_of_rejection",
              "notify_writer_of_publication"}

notification_type(op) ==
    CASE op = "notify_managers_of_submission" -> "article_submitted"
      [] op = "notify_writer_of_approval" -> "article_approved"
      [] op = "notify_writer_of_rejection" -> "article_rejected"
      [] op = "notify_writer_of_publication" -> "article_published"
      [] op = "notify_admin_form_submission" -> "system"

Row(recipient, type) ==
    [recipient |-> recipient, notification_type |-> type, is_read |-> FALSE, read_at |-> 0]

Idle == [op |-> "idle", todo |-> <<>>, nid |-> 0]

\* A service method is entered: its recipients are fixed, nothing is written yet.
Enter(op, recipients) ==
    /\ pub = Idle
    /\ recipients # <<>>
    /\ Len(store) + Len(recipients) <= MaxNotifications
    /\ pub' = [op |-> op, todo |-> recipients, nid |-> 0]
    /\ UNCHANGED <<consumer, userTable, conn, subprotocol, sessionVars, pc, layerVars,
                   sent, delivered, store, reply>>

notify_managers_of_submission ==
    Enter("notify_managers_of_submission", Ascending(managers))

notify_writer_of_approval(author) == Enter("notify_writer_of_approval", <<author>>)

notify_writer_of_rejection(author) == Enter("notify_writer_of_rejection", <<author>>)

notify_writer_of_publication(author) == Enter("notify_writer_of_publication", <<author>>)

notify_admin_form_submission ==
    Enter("notify_admin_form_submission", Ascending(managers))

\* Notification.objects.create(recipient=..., notification_type=...) of the
\* method in progress, for its next recipient.
create ==
    /\ pub.op \notin {"idle", "raised"}
    /\ pub.nid = 0
    /\ store' = Append(store, Row(Head(pub.todo), notification_type(pub.op)))
    /\ pub' = [pub EXCEPT !.nid = Len(store) + 1]
    /\ UNCHANGED <<consumer, userTable, conn, subprotocol, sessionVars, pc, layerVars,
                   sent, delivered, reply>>

\* The method goes on to its next recipient, or returns.
Advance == IF Len(pub.todo) = 1 THEN Idle
           ELSE [op |-> pub.op, todo |-> Tail(pub.todo), nid |-> 0]

\* The group _send_realtime_notification addresses for a user id.
service_group(user_id) == NotificationsGroup(user_id)

\* The group _send_realtime_notification_admin addresses for a user.
service_group_admin(user_id) == NotificationsGroupByName(username[user_id])

_send_realtime_notification ==
    /\ pub.op \notin {"idle", "raised", "notify_admin_form_submission"}
    /\ pub.nid # 0
    /\ inbox' = group_send(channel_groups, inbox, service_group(Head(pub.todo)), pub.nid)
    /\ pub' = Advance
    /\ UNCHANGED <<consumer, userTable, conn, subprotocol, sessionVars, pc, channel_groups,
                   sent, delivered, store, reply>>

_send_realtime_notification_admin ==
    /\ pub.op = "notify_admin_form_submission"
    /\ pub.nid # 0
    /\ inbox' = group_send(channel_groups, inbox, service_group_admin(Head(pub.todo)),
                           pub.nid)
    /\ pub' = Advance
    /\ UNCHANGED <<consumer, userTable, conn, subprotocol, sessionVars, pc, channel_groups,
                   sent, delivered, store, reply>>

\* The channel layer is a shared Redis broker: a producer other than
\* NotificationService sends a notification_message to a group that has members.
broker_group_send(group, nid) ==
    /\ Members(channel_groups, group) # {}
    /\ inbox' = group_send(channel_groups, inbox, group, nid)
    /\ UNCHANGED <<consumer, userTable, conn, subprotocol, sessionVars, pc, channel_groups,
                   sent, delivered, storeVars>>

JoinedGroups == {p[1] : p \in channel_groups}

\* ------------------------------------------------------ broker unreachable
\* async_to_sync(channel_layer.group_send) raises because Redis cannot be
\* reached.  Neither sender catches it: the exception leaves the notify method,
\* whose loop over the recipients is abandoned with pub.todo not yet served
\* (the head has its row, the others have none).
group_send_raises ==
    /\ pub.op \notin {"idle", "raised"}
    /\ pub.nid # 0
    /\ pub' = [pub EXCEPT !.op = "raised"]
    /\ UNCHANGED <<consumer, userTable, conn, subprotocol, sessionVars, pc, layerVars,
                   sent, delivered, store, reply>>

\* The mutation that called NotificationService catches the exception and
\* returns success=False.
caller_except ==
    /\ pub.op = "raised"
    /\ pub' = Idle
    /\ UNCHANGED <<consumer, userTable, conn, subprotocol, sessionVars, pc, layerVars,
                   sent, delivered, store, reply>>

\* ------------------------------------------------- notification mutations
\* timezone.now() read by a call: later than every instant already stored.
IsNow(now) ==
    /\ now \in 1..MaxTime
    /\ \A i \in 1..Len(store) : store[i].read_at < now

Reply(op, u, id, success, now, count) ==
    [op |-> op, user |-> u, id |-> id, success |-> success, at |-> now, count |-> count]

\* mark_as_read that sets the flag and leaves read_at alone.
mark_as_read_flag_only(row, now) ==
    IF ~row.is_read
    THEN [row EXCEPT !.is_read = TRUE]
    ELSE row

\* mark_as_read without its "if not self.is_read" test.
mark_as_read_every_call(row, now) ==
    [row EXCEPT !.is_read = TRUE, !.read_at = now]

\* Notification.mark_as_read on a row.
mark_as_read(row, now) ==
    IF ~row.is_read
    THEN [row EXCEPT !.is_read = TRUE, !.read_at = now]
    ELSE row

\* MarkNotificationAsRead.mutate with Notification.objects.get(id=notificationId),
\* the recipient not looked at.
MarkNotificationAsRead_any_recipient(u, id, now) ==
    /\ IsNow(now)
    /\ IF u = AnonymousUser
       THEN /\ reply' = Reply("MarkNotificationAsRead", u, id, FALSE, now, 0)
            /\ store' = store
       ELSE IF id \in 1..Len(store)
       THEN /\ store' = [store EXCEPT ![id] = mark_as_read(@, now)]
            /\ reply' = Reply("MarkNotificationAsRead", u, id, TRUE, now, 0)
       ELSE /\ reply' = Reply("MarkNotificationAsRead", u, id, FALSE, now, 0)
            /\ store' = store
    /\ UNCHANGED <<consumer, userTable, conn, subprotocol, sessionVars, pc, layerVars,
                   sent, delivered, pub>>

\* MarkNotificationAsRead.mutate for the requesting user u (AnonymousUser when
\* the request is not authenticated).
MarkNotificationAsRead(u, id, now) ==
    /\ IsNow(now)
    /\ IF u = AnonymousUser
       THEN /\ reply' = Reply("MarkNotificationAsRead", u, id, FALSE, now, 0)
            /\ store' = store
       ELSE IF id \in 1..Len(store) /\ store[id].recipient = u
       THEN /\ store' = [store EXCEPT ![id] = mark_as_read(@, now)]
            /\ reply' = Reply("MarkNotificationAsRead", u, id, TRUE, now, 0)
       ELSE /\ reply' = Reply("MarkNotificationAsRead", u, id, FALSE, now, 0)
            /\ store' = store
    /\ UNCHANGED <<consumer, userTable, conn, subprotocol, sessionVars, pc, layerVars,
                   sent, delivered, pub>>

\* The rows queryset.update(is_read=True, read_at=timezone.now()) writes:
\* Notification.objects.filter(recipient=user, is_read=False).
Unread(st, u) == {i \in 1..Len(st) : st[i].recipient = u /\ ~st[i].is_read}

\* mark_notifications_as_read with filter(recipient=user) only.
mark_notifications_as_read_read_too(st, u, now) ==
    [i \in 1..Len(st) |->
        IF st[i].recipient = u
        THEN [st[i] EXCEPT !.is_read = TRUE, !.read_at = now]
        ELSE st[i]]

\* NotificationService.mark_notifications_as_read(user): the table afterwards.
mark_notifications_as_read(st, u, now) ==
    [i \in 1..Len(st) |->
        IF i \in Unread(st, u)
        THEN [st[i] EXCEPT !.is_read = TRUE, !.read_at = now]
        ELSE st[i]]

\* MarkAllNotificationsAsRead.mutate.
MarkAllNotificationsAsRead(u, now) ==
    /\ IsNow(now)
    /\ IF u = AnonymousUser
       THEN /\ reply' = Reply("MarkAllNotificationsAsRead", u, 0, FALSE, now, 0)
            /\ store' = store
       ELSE /\ store' = mark_notifications_as_read(store, u, now)
            /\ reply' = Reply("MarkAllNotificationsAsRead", u, 0, TRUE, now,
                              Cardinality(Unread(store, u)))
    /\ UNCHANGED <<consumer, userTable, conn, subprotocol, sessionVars, pc, layerVars,
                   sent, delivered, pub>>

Requesters == UserIds \cup {AnonymousUser}

\* ------------------------------------------------------ producing mutations
\* News.STATUS_CHOICES, and the statuses UpdateNewsStatus.mutate accepts.
Statuses == {"draft", "pending", "approved", "published", "rejected", "archived"}
valid_statuses == {"draft", "pending", "published", "rejected", "archived"}

\* The mutation returns without having called NotificationService.
Returns(op, success) ==
    /\ reply' = Reply(op, NoUser, 0, success, 0, 0)
    /\ UNCHANGED <<consumer, userTable, conn, subprotocol, sessionVars, pc, layerVars,
                   sent, delivered, store, pub>>

\* UpdateNewsStatus.mutate, called by a manager for an existing article of
\* author whose status is old_status, up to its call of NotificationService.
UpdateNewsStatus(author, old_status, status) ==
    IF status \notin valid_statuses
    THEN Returns("UpdateNewsStatus", FALSE)
    ELSE IF old_status # status /\ status = "published"
    THEN notify_writer_of_publication(author)
    ELSE IF old_status # status /\ status = "approved"
    THEN notify_writer_of_approval(author)
    ELSE IF old_status # status /\ status = "rejected"
    THEN notify_writer_of_rejection(author)
    ELSE Returns("UpdateNewsStatus", TRUE)

\* SubmitNewsForReview.mutate, called by the author of an article whose
\* status is old_status, up to its call of NotificationService.
SubmitNewsForReview(old_status) ==
    IF old_status # "draft" /\ old_status # "rejected"
    THEN Returns("SubmitNewsForReview", FALSE)
    ELSE notify_managers_of_submission

\* CreateContact.mutate: the message is stored and the confirmation e-mail is
\* sent or not; NotificationService is not called.
CreateContact(email_sent) == Returns("CreateContact", email_sent)

Next ==
    \/ \E c \in Conns, scope \in Scopes : connect(c, scope)
    \/ \E c \in Conns, scope \in Scopes : connect_enhanced(c, scope)
    \/ \E c \in Conns : disconnect(c)
    \/ \E c \in Conns : disconnect_enhanced(c)
    \/ \E c \in Conns, m \in ClientMsgs : receive(c, m)
    \/ \E c \in Conns, m \in ClientMsgs : receive_enhanced(c, m)
    \/ \E c \in Conns : init_discard(c)
    \/ \E c \in Conns : init_add(c)
    \/ \E c \in Conns : notification_message(c)
    \/ \E c \in Conns : notification_message_enhanced(c)
    \/ notify_managers_of_submission
    \/ \E author \in UserIds : notify_writer_of_approval(author)
    \/ \E author \in UserIds : notify_writer_of_rejection(author)
    \/ \E author \in UserIds : notify_writer_of_publication(author)
    \/ notify_admin_form_submission
    \/ create
    \/ _send_realtime_notification
    \/ _send_realtime_notification_admin
    \/ \E g \in JoinedGroups, n \in 1..MaxNotifications : broker_group_send(g, n)
    \/ group_send_raises
    \/ caller_except
    \/ \E u \in Requesters, id \in 1..MaxNotifications, now \in 1..MaxTime :
            MarkNotificationAsRead(u, id, now)
    \/ \E u \in Requesters, now \in 1..MaxTime : MarkAllNotificationsAsRead(u, now)
    \/ \E author \in UserIds, old_status \in Statuses, status \in Statuses :
            UpdateNewsStatus(author, old_status, status)
    \/ \E old_status \in Statuses : SubmitNewsForReview(old_status)
    \/ \E email_sent \in BOOLEAN : CreateContact(email_sent)

Spec == Init /\ [][Next]_vars

\* ------------------------------------------------------------ the session
\* The connection handlers alone: no notification is published.  The handlers
\* read is_active and never username or role, which are fixed here.
\* The last account is inactive, the others are active.
InitSession ==
    /\ username = [u \in UserIds |-> PlainName(u)]
    /\ role = [u \in UserIds |-> "writer"]
    /\ is_active = [u \in UserIds |-> u # NumUsers]
    /\ Init

NextSession ==
    \/ \E c \in Conns, scope \in Scopes : connect(c, scope)
    \/ \E c \in Conns, scope \in Scopes : connect_enhanced(c, scope)
    \/ \E c \in Conns : disconnect(c)
    \/ \E c \in Conns : disconnect_enhanced(c)
    \/ \E c \in Conns, m \in ClientMsgs : receive(c, m)
    \/ \E c \in Conns, m \in ClientMsgs : receive_enhanced(c, m)
    \/ \E c \in Conns : init_discard(c)
    \/ \E c \in Conns : init_add(c)

SpecSession == InitSession /\ [][NextSession]_vars

\* ----------------------------------------------------------- the delivery
\* Publishing and fan-out.  Clients offer both sub-protocols, authenticate with
\* a well-formed header or not at all, and send well-formed frames.  The first
\* two accounts are managers.  Registration takes any username: either all are
\* plain, or the first is the digits of the second's id and the second is
\* "anonymous".
DeliveryNames ==
    {[u \in UserIds |-> PlainName(u)],
     [u \in UserIds |-> IF u = 1 THEN ToString(2)
                        ELSE IF u = 2 THEN "anonymous" ELSE PlainName(u)]}

InitDelivery ==
    /\ username \in DeliveryNames
    /\ role = [u \in UserIds |-> IF u <= 2 THEN "manager" ELSE "writer"]
    /\ is_active = [u \in UserIds |-> u # NumUsers]
    /\ Init

DeliveryScopes ==
    [subprotocols : {<<GraphqlWs, GraphqlTransportWs>>},
     authorization : {<<>>} \cup {<<Bearer, TokenFor(u)>> : u \in 1..2},
     token : {Absent}]

DeliveryMsgs ==
    {Msg("subscribe", "s1", "dict", AbsentVal, AbsentVal, "notificationAdded"),
     Msg("complete", "s1", Absent, AbsentVal, AbsentVal, Absent)}

\* consumers_enhanced joins no group that NotificationService addresses, so
\* its notification_message has nothing to dispatch here.
NextDelivery ==
    \/ \E c \in Conns, scope \in DeliveryScopes : connect(c, scope)
    \/ \E c \in Conns, scope \in DeliveryScopes : connect_enhanced(c, scope)
    \/ \E c \in Conns : disconnect(c)
    \/ \E c \in Conns : disconnect_enhanced(c)
    \/ \E c \in Conns, m \in DeliveryMsgs : receive(c, m)
    \/ \E c \in Conns : notification_message(c)
    \/ notify_managers_of_submission
    \/ \E author \in UserIds : notify_writer_of_publication(author)
    \/ notify_admin_form_submission
    \/ create
    \/ _send_realtime_notification
    \/ _send_realtime_notification_admin

SpecDelivery == InitDelivery /\ [][NextDelivery]_vars

\* ------------------------------------------------------------- the broker
\* The handlers of group messages, with the messages coming from any producer
\* on the channel layer.  Clients connect anonymously or as the first account,
\* and subscribe, complete, start and stop.
BrokerScopes ==
    [subprotocols : {<<GraphqlWs, GraphqlTransportWs>>},
     authorization : {<<>>, <<Bearer, TokenFor(1)>>},
     token : {Absent}]

BrokerMsgs ==
    DeliveryMsgs
    \cup {Msg("start", "s1", "dict", AbsentVal, AbsentVal, "notificationAdded"),
          Msg("stop", "s1", Absent, AbsentVal, AbsentVal, Absent)}

NextBroker ==
    \/ \E c \in Conns, scope \in BrokerScopes : connect(c, scope)
    \/ \E c \in Conns, scope \in BrokerScopes : connect_enhanced(c, scope)
    \/ \E c \in Conns : disconnect(c)
    \/ \E c \in Conns : disconnect_enhanced(c)
    \/ \E c \in Conns, m \in BrokerMsgs : receive(c, m)
    \/ \E c \in Conns, m \in BrokerMsgs : receive_enhanced(c, m)
    \/ \E c \in Conns : notification_message(c)
    \/ \E c \in Conns : notification_message_enhanced(c)
    \/ \E g \in JoinedGroups, n \in 1..MaxNotifications : broker_group_send(g, n)

SpecBroker == InitSession /\ [][NextBroker]_vars

\* ------------------------------------------------------ the connection_init
\* The handling of connection_init, between frames that change what was last
\* written.  Clients connect anonymously or as the first account.
InitSliceMsgs ==
    InitMsgs
    \cup {Msg("subscribe", "s1", "dict", AbsentVal, AbsentVal, "notificationAdded"),
          Msg("ping", None, Absent, AbsentVal, AbsentVal, Absent)}

NextInit ==
    \/ \E c \in Conns, scope \in BrokerScopes : connect(c, scope)
    \/ \E c \in Conns, scope \in BrokerScopes : connect_enhanced(c, scope)
    \/ \E c \in Conns : disconnect(c)
    \/ \E c \in Conns : disconnect_enhanced(c)
    \/ \E c \in Conns, m \in InitSliceMsgs : receive(c, m)
    \/ \E c \in Conns, m \in InitSliceMsgs : receive_enhanced(c, m)
    \/ \E c \in Conns : init_discard(c)
    \/ \E c \in Conns : init_add(c)

SpecInit == InitSession /\ [][NextInit]_vars

\* -------------------------------------------------------------- the store
\* The Notification table alone: rows are created for the first two accounts
\* by NotificationService and marked read by the two mutations, called by
\* either account or without authentication; no socket is connected.
StoreAuthors == {1, 2}
StoreRequesters == StoreAuthors \cup {AnonymousUser}

NextStore ==
    \/ \E author \in StoreAuthors : notify_writer_of_publication(author)
    \/ create
    \/ _send_realtime_notification
    \/ \E u \in StoreRequesters, id \in 1..MaxNotifications, now \in 1..MaxTime :
            MarkNotificationAsRead(u, id, now)
    \/ \E u \in StoreRequesters, now \in 1..MaxTime : MarkAllNotificationsAsRead(u, now)

SpecStore == InitSession /\ [][NextStore]_vars

\* ------------------------------------------------------------- the outage
\* The delivery, with a broker that may be unreachable when a sender calls it.
NextOutage ==
    \/ NextDelivery
    \/ group_send_raises
    \/ caller_except

SpecOutage == InitDelivery /\ [][NextOutage]_vars

\* ---------------------------------------------------------- the handshake
\* The negotiation of the sub-protocol: clients offer any list of names,
\* connect anonymously or as the first account, subscribe, start and stop,
\* and group messages, all for the first notification, come from any producer
\* on the channel layer.
HandshakeScopes ==
    [subprotocols : Offers,
     authorization : {<<>>, <<Bearer, TokenFor(1)>>},
     token : {Absent}]

HandshakeMsgs ==
    {Msg("subscribe", "s1", "dict", AbsentVal, AbsentVal, "notificationAdded"),
     Msg("start", "s1", "dict", AbsentVal, AbsentVal, "notificationAdded"),
     Msg("stop", "s1", Absent, AbsentVal, AbsentVal, Absent)}

NextHandshake ==
    \/ \E c \in Conns, scope \in HandshakeScopes : connect(c, scope)
    \/ \E c \in Conns, scope \in HandshakeScopes : connect_enhanced(c, scope)
    \/ \E c \in Conns : disconnect(c)
    \/ \E c \in Conns : disconnect_enhanced(c)
    \/ \E c \in Conns, m \in HandshakeMsgs : receive(c, m)
    \/ \E c \in Conns, m \in HandshakeMsgs : receive_enhanced(c, m)
    \/ \E c \in Conns : notification_message(c)
    \/ \E c \in Conns : notification_message_enhanced(c)
    \/ \E g \in JoinedGroups : broker_group_send(g, 1)

SpecHandshake == InitSession /\ [][NextHandshake]_vars

\* -------------------------------------------------------------- the frames
\* The inbound frames one at a time: text that is no JSON, objects of unknown
\* or missing type, ping, a subscribe, and a connection_init with a null
\* payload, on sockets of every offer, anonymous or of the first account.
MalformedMsgs ==
    {RawMsg("text"),
     Msg("pong", None, Absent, AbsentVal, AbsentVal, Absent),
     Msg(None, None, Absent, AbsentVal, AbsentVal, Absent)}

PingMsg == Msg("ping", None, Absent, AbsentVal, AbsentVal, Absent)

FrameMsgs ==
    MalformedMsgs
    \cup {PingMsg,
          Msg("subscribe", "s1", "dict", AbsentVal, AbsentVal, "notificationAdded"),
          Msg("connection_init", None, None, AbsentVal, AbsentVal, Absent)}

NextFrames ==
    \/ \E c \in Conns, scope \in HandshakeScopes : connect(c, scope)
    \/ \E c \in Conns, scope \in HandshakeScopes : connect_enhanced(c, scope)
    \/ \E c \in Conns : disconnect(c)
    \/ \E c \in Conns : disconnect_enhanced(c)
    \/ \E c \in Conns, m \in FrameMsgs : receive(c, m)
    \/ \E c \in Conns, m \in FrameMsgs : receive_enhanced(c, m)

SpecFrames == InitSession /\ [][NextFrames]_vars

\* ---------------------------------------------------------- the credential
\* Handshakes that carry a token of the first account in the query string and,
\* in the Authorization header, nothing, 'Bearer ' alone, a token of the second
\* account with and without 'Bearer ', or an expired token.
CredentialScopes ==
    [subprotocols : {<<GraphqlWs, GraphqlTransportWs>>},
     authorization : {<<>>, <<Bearer>>, <<TokenFor(2)>>, <<Bearer, TokenFor(2)>>,
                      <<Bearer, "jwt:expired">>},
     token : {TokenFor(1)}]

NextCredential ==
    \/ \E c \in Conns, scope \in CredentialScopes : connect(c, scope)
    \/ \E c \in Conns, scope \in CredentialScopes : connect_enhanced(c, scope)
    \/ \E c \in Conns : disconnect(c)
    \/ \E c \in Conns : disconnect_enhanced(c)
    \/ \E c \in Conns, m \in FrameMsgs : receive(c, m)
    \/ \E c \in Conns, m \in FrameMsgs : receive_enhanced(c, m)

SpecCredential == InitSession /\ [][NextCredential]_vars

\* --------------------------------------------------------------- the order
\* One publisher after the other notifies the first two accounts of their
\* articles' publication, while clients connect anonymously or as the first
\* account, and subscribe.
OrderMsgs ==
    {Msg("subscribe", "s1", "dict", AbsentVal, AbsentVal, "notificationAdded")}

NextOrder ==
    \/ \E c \in Conns, scope \in BrokerScopes : connect(c, scope)
    \/ \E c \in Conns, scope \in BrokerScopes : connect_enhanced(c, scope)
    \/ \E c \in Conns : disconnect(c)
    \/ \E c \in Conns : disconnect_enhanced(c)
    \/ \E c \in Conns, m \in OrderMsgs : receive(c, m)
    \/ \E c \in Conns : notification_message(c)
    \/ \E author \in StoreAuthors : notify_writer_of_publication(author)
    \/ create
    \/ _send_realtime_notification

SpecOrder == InitSession /\ [][NextOrder]_vars

\* ----------------------------------------------------------- the producers
\* The mutations that produce notifications, and NotificationService serving
\* their recipients; no socket is connected.
NextProducers ==
    \/ \E author \in UserIds, old_status \in Statuses, status \in Statuses :
            UpdateNewsStatus(author, old_status, status)
    \/ \E old_status \in Statuses : SubmitNewsForReview(old_status)
    \/ \E email_sent \in BOOLEAN : CreateContact(email_sent)
    \/ create
    \/ _send_realtime_notification

SpecProducers == InitDelivery /\ [][NextProducers]_vars

\* ------------------------------------------------------------- properties
\* The group a consumer of the serving class joins for user u, and for no user.
consumer_group(u) ==
    IF consumer = "consumers" THEN NotificationsGroup(u) ELSE UserGroup(u)
anonymous_group ==
    IF consumer = "consumers" THEN NotificationsAnonymous ELSE AnonymousUsers

\* "if self.subscription_id" holds.
Subscribed(c) == subscription_id[c] \notin {Absent, None}

\* Socket c is open, authenticated as u and a member of u's group.
InUserTopic(c, u) ==
    /\ conn[c] = "open"
    /\ user[c] = u
    /\ <<consumer_group(u), c>> \in channel_groups

\* NotificationService sends the stored notification to its recipient's group.
ServiceSend == _send_realtime_notification \/ _send_realtime_notification_admin

\* A group message is dispatched to the consumer of socket c.
Dispatch(c) == notification_message(c) \/ notification_message_enhanced(c)

\* C1: when NotificationService publishes a notification for user U, every
\* open socket that is then a member of U's group and holds a subscription id
\* gets the notification queued once, and the dispatch of a queued notification
\* to a subscribed socket writes exactly one frame carrying it.
C1_PublishReachesEverySubscriber ==
    [][/\ ServiceSend =>
            \A c \in Conns :
                (/\ InUserTopic(c, Head(pub.todo))
                 /\ Subscribed(c)
                 /\ Len(inbox[c]) < MaxInbox)
                => inbox'[c] = Append(inbox[c], pub.nid)
       /\ \A c \in Conns :
            (Dispatch(c) /\ Subscribed(c))
            => /\ Len(delivered'[c]) = Len(delivered[c]) + 1
               /\ delivered'[c][Len(delivered'[c])].nid = Head(inbox[c])]_vars

\* C2: one function of the user id names a user's group everywhere: the group
\* an authenticated socket has joined is the group both senders of
\* NotificationService address for that user; a socket without a user is in
\* the one reserved group "notifications_anonymous", which is no user's group.
C2_OneTopicFunction ==
    /\ \A c \in Conns :
        (conn[c] = "open" /\ pc[c] = 0 /\ user[c] \in UserIds)
        => /\ GroupsOf(channel_groups, c) = {service_group(user[c])}
           /\ service_group_admin(user[c]) = service_group(user[c])
    /\ \A c \in Conns :
        (conn[c] = "open" /\ user[c] = AnonymousUser)
        => GroupsOf(channel_groups, c) = {NotificationsAnonymous}
    /\ \A u \in UserIds :
        /\ service_group(u) # NotificationsAnonymous
        /\ service_group_admin(u) # NotificationsAnonymous

\* C3: a socket is written only notifications whose recipient is the user it
\* is authenticated as: no frame for user U goes to an anonymous socket or to
\* a socket of another user.
C3_NoFrameOutsideTopic ==
    \A c \in Conns :
        \A i \in 1..Len(delivered[c]) :
            store[delivered[c][i].nid].recipient = user[c]

\* C4: the dispatch of an event to a socket without a subscription id writes
\* no frame, and a notification frame is written only by the dispatch of the
\* event it carries to a subscribed socket (so a dropped event is not written
\* later).
C4_UnsubscribedEventIsDropped ==
    [][\A c \in Conns :
        /\ (Dispatch(c) /\ ~Subscribed(c))
           => (delivered'[c] = delivered[c] /\ sent'[c] = sent[c])
        /\ (delivered'[c] # delivered[c] /\ conn'[c] = conn[c])
           => /\ Dispatch(c)
              /\ Subscribed(c)
              /\ delivered'[c] = Append(delivered[c], sent'[c])
              /\ sent'[c].nid = Head(inbox[c])]_vars

\* A connection_init whose payload holds, under exactly one of the two keys, a
\* token of user u, with or without 'Bearer '.
CarriesTokenOf(m, u) ==
    /\ m.type = "connection_init"
    /\ m.payload = "dict"
    /\ \E v \in {StrVal(<<TokenFor(u)>>), StrVal(<<Bearer, TokenFor(u)>>)} :
        \/ (m.Authorization = v /\ m.authorization = AbsentVal)
        \/ (m.authorization = v /\ m.Authorization = AbsentVal)

\* Channel c is in the group of user u and in no other group.
OnlyInUserTopic(cg, c, u) == GroupsOf(cg, c) = {consumer_group(u)}

\* C5: when the handling of a connection_init that carries a valid token of
\* an active user U ends, the socket is a member of U's group and not of the
\* anonymous group.
C5_InitTokenJoinsUserTopic ==
    [][\A c \in Conns :
        /\ \A m \in InitMsgs, u \in UserIds :
            (receive(c, m) /\ CarriesTokenOf(m, u) /\ is_active[u])
            => OnlyInUserTopic(channel_groups', c, u)
        /\ init_add(c) => OnlyInUserTopic(channel_groups', c, user[c])]_vars

\* C6: in every reachable state an open socket is a member of exactly one
\* group, also while a connection_init moves it to another group.
C6_AlwaysExactlyOneTopic ==
    \A c \in Conns :
        conn[c] = "open" => Cardinality(GroupsOf(channel_groups, c)) = 1

\* The string is a token, with or without 'Bearer ', that is well signed, not
\* expired and names an active account.
IsValidCredential(s) ==
    LET t == IF startswith(s, Bearer) THEN Tail(s) ELSE s IN
    /\ Len(t) = 1
    /\ t[1] \in Tokens
    /\ Claims[t[1]].exc = None
    /\ Claims[t[1]].user_id \in UserIds
    /\ is_active[Claims[t[1]].user_id]

\* Neither key of the connection_init holds a valid token of an active user.
NoValidToken(m) ==
    \A v \in {m.Authorization, m.authorization} :
        ~(v.t = "str" /\ IsValidCredential(v.s))

\* The consumer of socket c handles, to the end, connection_init m.
HandlesInit(c, m) == receive(c, m) \/ receive_enhanced(c, m)

FailsVerification(scope) ==
    LET token == ScopeToken(scope)
        p == jwt_decode(token)
    IN  /\ token # <<>>
        /\ (p.exc # None \/ ~UserExists(p.user_id) \/ ~is_active[p.user_id])

\* C8: a handshake that offers graphql-ws and carries a token whose
\* verification fails is accepted as anonymous: the socket is open, its user
\* is AnonymousUser and it is a member of the anonymous group only.
C8_ConnectFailureDegradesToAnonymous ==
    [][\A c \in Conns, scope \in Scopes :
        (/\ (connect(c, scope) \/ connect_enhanced(c, scope))
         /\ FailsVerification(scope)
         /\ In(GraphqlWs, scope.subprotocols))
        => /\ conn'[c] = "open"
           /\ user'[c] = AnonymousUser
           /\ GroupsOf(channel_groups', c) = {anonymous_group}]_vars

\* C9: the frame that answers a connection_init is connection_ack, whatever
\* its payload, and the socket stays open.
C9_InitIsAlwaysAcked ==
    [][\A c \in Conns :
        /\ \A m \in InitMsgs :
            (HandlesInit(c, m) /\ pc'[c] = 0)
            => (sent'[c].type = "connection_ack" /\ conn'[c] = "open")
        /\ init_add(c) => sent'[c].type = "connection_ack"]_vars

\* The consumer of socket c has ended.
Ended(c) == conn[c] \in {"closed", "crashed"}

\* C10: a socket whose consumer has ended, by disconnect or by an exception
\* leaving a handler, is a member of no group, and nothing is written to it.
C10_EndedSocketIsInNoTopic ==
    /\ [](\A c \in Conns : Ended(c) => GroupsOf(channel_groups, c) = {})
    /\ [][\A c \in Conns :
            Ended(c) => (sent'[c] = sent[c] /\ delivered'[c] = delivered[c]
                         /\ inbox'[c] = inbox[c])]_vars

\* C11: when the broker is unreachable as a sender calls it, the row just
\* stored stays stored and the notify method goes on as after a send that
\* worked: it does not fail, and it goes on to the recipients still to serve,
\* so that each of them gets a row.
C11_OutageKeepsPersistence ==
    [][group_send_raises =>
        /\ store' = store
        /\ store[pub.nid].recipient = Head(pub.todo)
        /\ pub' = Advance]_vars

\* C12: in every state of the Notification table, a row has read_at set if
\* and only if its is_read is true.
C12_ReadAtIffIsRead ==
    \A i \in 1..Len(store) : (store[i].read_at # 0) <=> store[i].is_read

\* A mark-all has just marked a row: the row is read, at the instant of the call.
C12_Witness ==
    /\ reply.op = "MarkAllNotificationsAsRead"
    /\ reply.count >= 1
    /\ \E i \in 1..Len(store) :
        /\ store[i].recipient = reply.user
        /\ store[i].is_read
        /\ store[i].read_at = reply.at
    /\ \E j \in 1..Len(store) : ~store[j].is_read /\ store[j].read_at = 0

\* Row id exists and its recipient is u.
Owns(u, id) == id \in 1..Len(store) /\ store[id].recipient = u

\* C13: mark_as_read by the recipient succeeds; the first call sets is_read
\* and read_at = the instant of that call, a call on a row already read
\* succeeds and leaves the row as the first call made it.  (The reply of a
\* call names the requester, the row and the instant of the call.)
C13_MarkAsReadIdempotent ==
    [][LET u == reply'.user
           id == reply'.id
           now == reply'.at
       IN  (MarkNotificationAsRead(u, id, now) /\ Owns(u, id))
        => /\ reply'.success
           /\ store' = [store EXCEPT ![id] =
                           IF store[id].is_read THEN store[id]
                           ELSE [store[id] EXCEPT !.is_read = TRUE, !.read_at = now]]]_vars

\* The recipient's call has succeeded on a row that was read at an earlier
\* instant, and the row still carries that instant.
C13_Witness ==
    /\ reply.op = "MarkNotificationAsRead"
    /\ reply.success
    /\ Owns(reply.user, reply.id)
    /\ store[reply.id].is_read
    /\ store[reply.id].read_at < reply.at

\* C14: mark_as_read by a requester who is not the row's recipient returns
\* success false and changes no row.
C14_MarkAsReadOnlyByRecipient ==
    [][LET u == reply'.user
           id == reply'.id
           now == reply'.at
       IN
        (/\ MarkNotificationAsRead(u, id, now)
         /\ id \in 1..Len(store)
         /\ store[id].recipient # u)
        => (~reply'.success /\ store' = store)]_vars

\* A user's call on another user's unread row has been refused, and the row
\* is still unread.
C14_Witness ==
    /\ reply.op = "MarkNotificationAsRead"
    /\ ~reply.success
    /\ reply.user \in UserIds
    /\ reply.id \in 1..Len(store)
    /\ store[reply.id].recipient # reply.user
    /\ ~store[reply.id].is_read

\* C15: mark_all_as_read by user u succeeds; afterwards every row of u is
\* read, the rows of u that were read already and the rows of other
\* recipients are unchanged (so a second call changes no row).
C15_MarkAllBulkIdempotent ==
    [][LET u == reply'.user
           now == reply'.at
       IN  (MarkAllNotificationsAsRead(u, now) /\ u \in UserIds)
        => /\ reply'.success
           /\ Len(store') = Len(store)
           /\ \A i \in 1..Len(store) :
                /\ store[i].recipient = u => store'[i].is_read
                /\ (store[i].recipient # u \/ store[i].is_read) => store'[i] = store[i]]_vars

\* A second mark-all of a user has succeeded and marked nothing: the user's
\* row keeps the earlier instant, and another user's row is still unread.
C15_Witness ==
    /\ reply.op = "MarkAllNotificationsAsRead"
    /\ reply.success
    /\ reply.count = 0
    /\ \E i \in 1..Len(store) :
        /\ store[i].recipient = reply.user
        /\ store[i].is_read
        /\ store[i].read_at < reply.at
    /\ \E j \in 1..Len(store) : store[j].recipient # reply.user /\ ~store[j].is_read

\* The client offers one of the two sub-protocols the server speaks.
OffersSupported(subprotocols) ==
    In(GraphqlTransportWs, subprotocols) \/ In(GraphqlWs, subprotocols)

\* The variant the priority order selects among the names offered.
Preferred(subprotocols) ==
    IF In(GraphqlTransportWs, subprotocols) THEN GraphqlTransportWs ELSE GraphqlWs

\* connect() of the serving class handles the handshake of socket c.
Connects(c, scope) == connect(c, scope) \/ connect_enhanced(c, scope)

\* C16: a connect whose client offers a supported sub-protocol (and is not
\* refused for its account) is accepted with the variant of highest
\* priority among those offered, graphql-transport-ws before graphql-ws,
\* and that variant is the one recorded for the connection.
C16_PrefersTransportVariant ==
    [][\A c \in Conns, scope \in HandshakeScopes :
        (/\ Connects(c, scope)
         /\ OffersSupported(scope.subprotocols)
         /\ ~(consumer = "consumers" /\ ClosesForAccount(scope)))
        => /\ conn'[c] = "open"
           /\ subprotocol'[c] = Preferred(scope.subprotocols)]_vars

C18_FrameTypesFollowVariant ==
    \A c \in Conns :
        conn[c] = "open"
        => /\ sent[c].type \in {"next", "complete"} => subprotocol[c] = GraphqlTransportWs
           /\ sent[c].type \in {"data", "stop"} => subprotocol[c] = GraphqlWs

\* receive() of the serving class handles frame m on socket c.
Handles(c, m) == receive(c, m) \/ receive_enhanced(c, m)

\* Nothing has been handled on socket c since a complete or stop frame: the
\* subscription id is the None that complete stores, or the last frame written
\* is the answer to stop.
JustStopped(c) == subscription_id[c] = None \/ sent[c].type = "complete"

\* C19: the handling of a complete or stop frame leaves the connection
\* without a subscription id and in the same topics as before, writing no
\* event frame; and an event that reaches the connection after that frame,
\* before any new subscribe or start, writes no event frame.
C19_CompleteStopsEvents ==
    /\ [][\A c \in Conns, m \in BrokerMsgs :
            (Handles(c, m) /\ m.type \in {"complete", "stop"})
            => /\ ~Subscribed(c)'
               /\ GroupsOf(channel_groups', c) = GroupsOf(channel_groups, c)
               /\ delivered'[c] = delivered[c]]_vars
    /\ [][\A c \in Conns :
            (Dispatch(c) /\ JustStopped(c)) => delivered'[c] = delivered[c]]_vars

\* NotificationService has stored the row of user u and is about to send it.
Publishing(u) ==
    /\ pub.op \notin {"idle", "raised"}
    /\ pub.nid # 0
    /\ Head(pub.todo) = u

\* No open socket is a member of user u's group.
NoLiveConnection(u) == \A c \in Conns : ~(conn[c] = "open" /\ InUserTopic(c, u))

\* C20: when the service sends the notification of a user who has no live
\* connection in their topic, the send does not raise, the user's row is
\* stored unread with no read_at, and nothing is queued for any open
\* connection (so no frame is written for it).
C20_PublishWithoutSubscriber ==
    [][\A u \in UserIds :
        (Publishing(u) /\ NoLiveConnection(u))
        => /\ ~group_send_raises
           /\ ServiceSend
              => /\ store[pub.nid].recipient = u
                 /\ ~store[pub.nid].is_read
                 /\ store[pub.nid].read_at = 0
                 /\ \A c \in Conns : conn[c] = "open" => inbox'[c] = inbox[c]]_vars

\* The identity, the topics and the subscription id of socket c are the same
\* after the step as before.
SessionKept(c) ==
    /\ user'[c] = user[c]
    /\ GroupsOf(channel_groups', c) = GroupsOf(channel_groups, c)
    /\ subscription_id'[c] = subscription_id[c]

ListedTypes == {"connection_ack", "next", "data", "complete", "stop", "pong"}

\* C22: the last frame written to any socket, if any, has one of the listed
\* types; no frame of another type (an error frame) is ever written.
C22_OnlyListedFrameTypes ==
    \A c \in Conns : sent[c] # NoFrame => sent[c].type \in ListedTypes

\* C23: whenever an open connection can have a frame handled, the handling of
\* a ping writes a pong frame and leaves the connection open with the same
\* identity, the same topics and the same subscription id.
C23_PingIsAnsweredWithPong ==
    \A c \in Conns :
        (conn[c] = "open" /\ pc[c] = 0)
        => ENABLED (/\ Handles(c, PingMsg)
                    /\ sent'[c].type = "pong"
                    /\ conn'[c] = "open"
                    /\ SessionKept(c))

\* The Authorization header of the handshake is 'Bearer ' followed by a token.
HasBearerToken(scope) ==
    Len(scope.authorization) = 2 /\ scope.authorization[1] = Bearer

\* C24: a connect whose handshake has a Bearer token in the header has the
\* outcome of the same handshake without the query string (the query token is
\* not used); a connect whose handshake has no Bearer token in the header has
\* the outcome of a handshake that carries the query token as Bearer header.
C24_HeaderBeforeQueryString ==
    [][\A c \in Conns, scope \in CredentialScopes :
        Connects(c, scope)
        => IF HasBearerToken(scope)
           THEN Connects(c, [scope EXCEPT !.token = Absent])
           ELSE Connects(c, [scope EXCEPT !.authorization = <<Bearer, scope.token>>,
                                          !.token = Absent])]_vars

\* Every handshake carries the first account's token in the query string: one
\* socket is open as the second account (its header token was verified), the
\* other as the first account (its header had no Bearer token).
C24_Witness ==
    \E c, d \in Conns :
        /\ conn[c] = "open" /\ user[c] = 2
        /\ conn[d] = "open" /\ user[d] = 1

\* The queue of messages waiting for the consumer of socket c is full: the
\* connection does not keep up with what is published to it.
CannotKeepUp(c) == Len(inbox[c]) >= MaxInbox

\* C25: a publish to a topic queues the event for every open member that
\* keeps up, whatever the state of the other members, and a member that
\* cannot keep up is disconnected by it.
C25_SlowMemberIsDisconnected ==
    [][\A g \in JoinedGroups, n \in 1..MaxNotifications :
        broker_group_send(g, n)
        => \A c \in Members(channel_groups, g) :
            conn[c] = "open"
            => IF CannotKeepUp(c)
               THEN conn'[c] # "open"
               ELSE inbox'[c] = Append(inbox[c], n)]_vars

\* C26: the notification frames written to a connection are in the order in
\* which their notifications were published (rows are numbered in the order
\* of their creation, and each is published right after it is created): no
\* frame of a later notification precedes a frame of an earlier one.
C26_FramesInPublishOrder ==
    \A c \in Conns :
        \A i, j \in 1..Len(delivered[c]) :
            i < j => delivered[c][i].nid < delivered[c][j].nid

\* A socket has been written the frames of two notifications of the same
\* recipient, the first published first.
C26_Witness ==
    \E c \in Conns :
        /\ Len(delivered[c]) >= 2
        /\ delivered[c][1].nid = 1
        /\ delivered[c][2].nid = 2
        /\ store[1].recipient = store[2].recipient

\* A subscribe or start frame for the notification subscription, with an id.
NotificationSubscribes(m) ==
    /\ m.type \in {"subscribe", "start"}
    /\ m.payload = "dict"
    /\ m.query = "notificationAdded"
    /\ m.id \in SubIds

\* C27: the handling of a subscribe/start for the notification subscription
\* records the frame's id as the connection's subscription id; a notification
\* frame is written only to a connection that has a subscription id, and
\* carries that id.
C27_EventFramesCarrySubscriptionId ==
    /\ [][\A c \in Conns, m \in BrokerMsgs :
            (Handles(c, m) /\ NotificationSubscribes(m))
            => subscription_id'[c] = m.id]_vars
    /\ [][\A c \in Conns :
            (Dispatch(c) /\ Len(delivered'[c]) > Len(delivered[c]))
            => /\ Subscribed(c)
               /\ sent'[c].id = subscription_id[c]]_vars

\* No service method is in progress and the table has room for n more rows.
Room(n) == pub = Idle /\ Len(store) + n <= MaxNotifications

\* The service method that notifies of a change of status.
MethodFor(status) ==
    CASE status = "approved" -> "notify_writer_of_approval"
      [] status = "rejected" -> "notify_writer_of_rejection"
      [] status = "published" -> "notify_writer_of_publication"

\* The service is entered by method op to notify each of recipients once.
Publishes(op, recipients) == pub' = [op |-> op, todo |-> recipients, nid |-> 0]

\* C28: each producing action enters NotificationService for its intended
\* recipients: a change of status to approved, rejected or published for the
\* article's author; a submission for review and a contact form for every
\* active manager or admin.
C28_ProducersNotifyRecipients ==
    [][/\ \A author \in UserIds, old_status \in Statuses,
            status \in {"approved", "rejected", "published"} :
            (/\ Room(1)
             /\ old_status # status
             /\ UpdateNewsStatus(author, old_status, status))
            => Publishes(MethodFor(status), <<author>>)
       /\ \A old_status \in {"draft", "rejected"} :
            (Room(Cardinality(managers)) /\ SubmitNewsForReview(old_status))
            => Publishes("notify_managers_of_submission", Ascending(managers))
       /\ \A email_sent \in BOOLEAN :
            (Room(Cardinality(managers)) /\ CreateContact(email_sent))
            => Publishes("notify_admin_form_submission", Ascending(managers))]_vars

\* C29: when the service sends a notification, its row is already stored, and
\* every channel the event is queued for is a member of the topic of the
\* row's recipient; and the notification of every frame written is a stored
\* row.
C29_PersistenceBeforeFanOut ==
    /\ [][ServiceSend =>
            /\ pub.nid \in 1..Len(store)
            /\ \A c \in Conns :
                inbox'[c] # inbox[c]
                => <<consumer_group(store[pub.nid].recipient), c>> \in channel_groups]_vars
    /\ [](\A c \in Conns :
            \A i \in 1..Len(delivered[c]) : delivered[c][i].nid \in 1..Len(store))

\* C30: a socket whose connect was refused leaves that state only by the
\* disconnect that completes the refusal, and is then a member of no topic,
\* although its consumer may have joined one before the refusal.
C30_RejectedSocketLeavesRegistry ==
    [][\A c \in Conns :
        (conn[c] = "rejected" /\ conn'[c] # "rejected")
        => /\ conn'[c] = "closed"
           /\ GroupsOf(channel_groups', c) = {}]_vars

\* The refusal of the first socket has completed, and it is a member of no
\* topic; the second socket is refused, and its consumer has joined a topic.
C30_Witness ==
    /\ conn[1] = "closed"
    /\ GroupsOf(channel_groups, 1) = {}
    /\ conn[2] = "rejected"
    /\ GroupsOf(channel_groups, 2) # {}

====
